---------------------------- MODULE Spec2Model ----------------------------
(***************************************************************************)
(* A model of postal.js (my-covid-story/postal-data): the resumable,       *)
(* rate-limited, retrying FSA -> electoral-district search                 *)
(* (fsaEdSearch / fsaEdSearchFor), the province resolver (fsaProvince),    *)
(* the enrichment of the district data (edMppEnrich), the generation of    *)
(* the LDU pool (lduGenerate) and the scraping of the FSA tables           *)
(* (dataLines, fsaScrapeFrom).  Each has its own specification.            *)
(*                                                                         *)
(* JavaScript strings are sequences of one-character strings, so that      *)
(* concatenation, length, charAt and toUpperCase are what the code does.   *)
(* A per-FSA file is [st, ents]: st is "absent" (no file), "ok" (the text  *)
(* of a completed fs.writeFile, which JSON.parse reads back) or "torn"     *)
(* (the truncated text a terminated fs.writeFile leaves, which JSON.parse  *)
(* rejects); ents are the entries whose text is in the file.               *)
(***************************************************************************)
EXTENDS Integers, Sequences, FiniteSets, TLC

(***************************************************************************)
(* Bounds of the model.                                                    *)
(***************************************************************************)
\* How many times the command is started (a first run and its resumes).
MaxRuns == 2
\* The response latency of a lookup is 0 or LatencyMs milliseconds.
LatencyMs == 400
\* How many gaps between consecutive requests are remembered.
WindowK == 2

(***************************************************************************)
(* Program constants.                                                      *)
(***************************************************************************)
\* postal.js:190 has 600; scaled to 2 so that persisted pools shorter and
\* longer than the count are both enumerated.
SEARCH_LDU_COUNT == 2
\* postal.js:441  await delay(900)
DelayMs == 900
\* postal.js:447  if (retry < 3)
MaxRetry == 3
\* postal.js:440  "the API limit of 4000 requests/hour"
Quota == 4000
HourMs == 3600000

(***************************************************************************)
(* Strings.                                                                *)
(***************************************************************************)
\* String(undefined), what fsa + undefined appends.
UndefinedText == <<"u", "n", "d", "e", "f", "i", "n", "e", "d">>
\* The value of an empty array slot (a hole reads as undefined).
Undefined == <<"<undefined>">>

\* The string conversion of the + operator (postal.js:431).
JsString(v) == IF v = Undefined THEN UndefinedText ELSE v

UpperChar(c) ==
  CASE c = "k" -> "K" [] c = "l" -> "L" [] c = "h" -> "H" [] c = "a" -> "A"
    [] c = "b" -> "B" [] c = "x" -> "X" [] OTHER -> c

LowerChar(c) ==
  CASE c = "K" -> "k" [] c = "L" -> "l" [] c = "H" -> "h" [] c = "A" -> "a"
    [] c = "B" -> "b" [] c = "X" -> "x" [] OTHER -> c

toUpperCase(s) == [i \in DOMAIN s |-> UpperChar(s[i])]

toLowerCase(s) == [i \in DOMAIN s |-> LowerChar(s[i])]

\* postal.js:35; the fixed prefix and suffix of the path are left out.
pathFsaEd(f) == toLowerCase(f)

(***************************************************************************)
(* The persisted inputs: fsa.json and ldu.json.                            *)
(***************************************************************************)
K0A == <<"K", "0", "A">>
K1A == <<"K", "1", "A">>
H1A == <<"H", "1", "A">>

LduA == <<"1", "A", "0">>
LduB == <<"2", "B", "0">>
Ldu1 == <<"3", "C", "4">>
Ldu2 == <<"5", "E", "6">>
Ldu3 == <<"7", "G", "8">>

\* fsa.json: a rural Ontario FSA whose ldus list repeats an LDU, an urban
\* Ontario FSA (no ldus field) and an urban FSA of another province.
FsaJson ==
  << [fsa |-> K0A, province |-> "ON",
      ldus |-> << [ldu |-> LduA, name |-> "a", retired |-> FALSE],
                  [ldu |-> LduB, name |-> "b", retired |-> TRUE],
                  [ldu |-> LduA, name |-> "a", retired |-> FALSE] >>],
     [fsa |-> K1A, province |-> "ON"],
     [fsa |-> H1A, province |-> "QC"] >>

\* ldu.json as persisted: a pool shorter and a pool longer than
\* SEARCH_LDU_COUNT.
PoolChoices == { <<Ldu1>>, <<Ldu1, Ldu2, Ldu3>> }

\* The selector arguments of the command line: none (every Ontario FSA),
\* or a lower-case Ontario FSA and an FSA of another province.
ArgChoices == { <<>>, << <<"k", "0", "a">>, H1A >> }

\* The payload the external lookup answers with for postal code p
\* (bent parses the JSON body); the lookup is deterministic.
ApiResponse(p) == [postalCode |-> p]

Paths == { pathFsaEd(FsaJson[i].fsa) : i \in DOMAIN FsaJson }

NoError == [kind |-> "none"]

\* The error of a failed request (bent rejects the promise).
LookupError(p, n) == [kind |-> "lookup", postal |-> p, attempt |-> n]

VARIABLES
  lduJson,     \* the content of ldu.json
  file,        \* path -> the per-FSA file
  pc,          \* where the process is; "idle" when no process runs
  fsaData,     \* fsaEdSearch: the records not searched yet
  randomLdus,  \* fsaEdSearch: the pool after its length is set
  fsas,        \* fsaEdSearch: the selector, upper-cased
  fsa,         \* fsaEdSearchFor: parameter
  ldus,        \* fsaEdSearchFor: parameter
  li,          \* fsaEdSearchFor: position of the for loop in ldus
  retry,       \* fsaEdSearchFor: the retry counter
  results,     \* fsaEdSearchFor: the result set
  err,         \* fsaEdSearchFor: the error caught at line 457, if any
  exit,        \* how the last process ended
  runs,        \* processes started so far
  reqLog,      \* history: postal codes requested by this fsaEdSearchFor call
  okCount,     \* history: lookups that succeeded in this call
  loaded,      \* history: the result set as loaded at the start of this call
  before,      \* history: the file as it was at the start of this call
  resumed,     \* history: this call started from the file that a fully
               \* successful call persisted
  inFlight,    \* requests issued and not yet answered
  waited,      \* ms spent in delay() since the last answer (or the start)
  sinceStart,  \* ms since the last request was issued, -1 before the first
  gaps,        \* ms between the last consecutive requests, newest last
  flushed,     \* history: path -> the last completed write, and whether
               \* the call that made it was fully successful
  pfsa,        \* fsaProvince: the argument
  pout,        \* fsaProvince: what the call returned, "none" before it
  argv,        \* edMppEnrich: the arguments of the command line
  edRaw,       \* the content of ed-raw.json
  mppHtml,     \* the names of the MPP pages that exist on disk
  ePc,         \* edMppEnrich: where the command is
  ids,         \* edMppEnrich: parameter, after the default is applied
  ei,          \* edMppEnrich: position of the for loop in ids
  eds,         \* edMppEnrich: the records pushed so far
  edJson,      \* the content of ed.json
  gPc,         \* lduGenerate: where the command is
  gd1,         \* lduGenerate: position of the outer loop in digits
  gl,          \* lduGenerate: position of the middle loop in letters
  gLdus,       \* lduGenerate: the local array ldus
  dlIn,        \* dataLines: the inner HTML of the cell
  dlOut,       \* dataLines: what the call returned
  scDoc,       \* fsaScrapeFrom: the cells of the document
  scOut        \* fsaScrapeFrom: how the call ended

vars == << lduJson, file, pc, fsaData, randomLdus, fsas, fsa, ldus, li, retry,
           results, err, exit, runs, reqLog, okCount, loaded, before, resumed,
           inFlight, waited, sinceStart, gaps, flushed, pfsa, pout, argv,
           edRaw, mppHtml, ePc, ids, ei, eds, edJson, gPc, gd1, gl,
           gLdus, dlIn, dlOut, scDoc, scOut >>

procVars == << fsaData, randomLdus, fsas >>
callVars == << fsa, ldus, li, retry, results, err >>
histVars == << reqLog, okCount, loaded, before, resumed >>
provVars == << pfsa, pout >>
timeVars == << inFlight, waited, sinceStart, gaps >>
\* The variables of fsa-ed-search other than ldu.json.
nonPoolVars == << file, pc, procVars, callVars, exit, runs, histVars, timeVars,
                 flushed >>
searchVars == << lduJson, nonPoolVars >>
enrichVars == << argv, edRaw, mppHtml, ePc, ids, ei, eds, edJson >>
genVars == << gPc, gd1, gl, gLdus >>
textVars == << dlIn, dlOut, scDoc, scOut >>
\* The variables of the commands other than fsa-ed-search.
cmdVars == << enrichVars, genVars, textVars >>
notEnrichVars == << searchVars, provVars, genVars, textVars >>

NoFile == [st |-> "absent", ents |-> <<>>]

NothingFlushed == [ents |-> <<>>, complete |-> FALSE]

SearchInit ==
  /\ lduJson \in PoolChoices
  /\ file = [p \in Paths |-> NoFile]
  /\ pc = "idle"
  /\ fsaData = <<>>
  /\ randomLdus = <<>>
  /\ fsas = <<>>
  /\ fsa = <<>>
  /\ ldus = <<>>
  /\ li = 1
  /\ retry = 0
  /\ results = <<>>
  /\ err = NoError
  /\ exit = [kind |-> "none"]
  /\ runs = 0
  /\ reqLog = <<>>
  /\ okCount = 0
  /\ loaded = <<>>
  /\ before = NoFile
  /\ resumed = FALSE
  /\ inFlight = 0
  /\ waited = 0
  /\ sinceStart = -1
  /\ gaps = <<>>
  /\ flushed = [p \in Paths |-> NothingFlushed]

\* ed.json before edMppEnrich has written it.
NotWritten == [written |-> FALSE, eds |-> <<>>]

ProvinceIdle ==
  /\ pfsa = <<>>
  /\ pout = "none"

EnrichIdle ==
  /\ argv = <<>>
  /\ edRaw = <<>>
  /\ mppHtml = {}
  /\ ePc = "idle"
  /\ ids = <<>>
  /\ ei = 1
  /\ eds = <<>>
  /\ edJson = NotWritten

GenIdle ==
  /\ gPc = "idle"
  /\ gd1 = 1
  /\ gl = 1
  /\ gLdus = <<>>

\* dataLines and fsaScrapeFrom before the call.
NoLines == [done |-> FALSE, lines |-> <<>>]
NoRecords == [st |-> "none", recs |-> <<>>]

TextIdle ==
  /\ dlIn = <<>>
  /\ dlOut = NoLines
  /\ scDoc = <<>>
  /\ scOut = NoRecords

Init ==
  /\ SearchInit
  /\ ProvinceIdle
  /\ EnrichIdle
  /\ GenIdle
  /\ TextIdle

\* The memory of a process that has just started: the variables of
\* fsaEdSearchFor at their initial values and the clock at zero.
FreshMemory ==
  /\ fsa' = <<>>
  /\ ldus' = <<>>
  /\ li' = 1
  /\ retry' = 0
  /\ results' = <<>>
  /\ err' = NoError
  /\ reqLog' = <<>>
  /\ okCount' = 0
  /\ loaded' = <<>>
  /\ before' = NoFile
  /\ resumed' = FALSE
  /\ inFlight' = 0
  /\ waited' = 0
  /\ sinceStart' = -1
  /\ gaps' = <<>>

(***************************************************************************)
(* Helpers of the operations.                                              *)
(***************************************************************************)
Range(s) == { s[i] : i \in DOMAIN s }

\* Array.prototype.includes on an array of strings.
Includes(arr, v) == \E i \in DOMAIN arr : arr[i] = v

\* postal.js:468-470, the filter of fsaData.
Selected(sel, f) ==
  f.province = "ON" /\ (Len(sel) = 0 \/ Includes(sel, f.fsa))

\* postal.js:473-474: "randomLdus.length = SEARCH_LDU_COUNT" truncates a
\* longer array and pads a shorter one with empty slots.
SetLength(arr, n) ==
  [i \in 1..n |-> IF i <= Len(arr) THEN arr[i] ELSE Undefined]

\* postal.js:479: the candidates of one record.
Candidates(f, pool) ==
  IF "ldus" \in DOMAIN f
    THEN [i \in DOMAIN f.ldus |-> f.ldus[i].ldu]
    ELSE pool

\* As ReadResults, with the existing file never loaded.
ReadNothing(f) == <<>>

\* postal.js:422-427: the result set after reading the file; any failure of
\* readFile or JSON.parse leaves the initial [].
ReadResults(f) == IF f.st = "ok" THEN f.ents ELSE <<>>

\* postal.js:431
Postal(f, l) == f \o JsString(l)

\* As Existing, with only the newest entry compared.
ExistingLastOnly(res, p) == res # <<>> /\ res[Len(res)].postal = p

\* postal.js:432-433: results.find((r) => r.postal === postal)
Existing(res, p) == \E i \in DOMAIN res : res[i].postal = p

\* As ShouldRetry, off by one.
RetryOnceMore(r) == r <= MaxRetry

\* postal.js:447
ShouldRetry(r) == r < MaxRetry

\* As DelayBefore, with the delay outside the retry loop.
DelayFirstOnly(r) == IF r = 0 THEN DelayMs ELSE 0

\* As DelayBefore, with a delay of 800 ms.
DelayTooShort(r) == DelayMs - 100

\* postal.js:441: the delay before the attempt numbered r.
DelayBefore(r) == DelayMs

\* As Rethrown, with the error wrapped in a new one.
RethrownWrapped(e) == [kind |-> "wrapped", cause |-> e]

\* postal.js:450, 459: the error rethrown to the caller.
Rethrown(e) == e

Last(s, n) == SubSeq(s, Len(s) - n + 1, Len(s))

PushGap(g, d) == IF Len(g) < WindowK THEN Append(g, d) ELSE Append(Tail(g), d)

(***************************************************************************)
(* fsaEdSearch                                                             *)
(***************************************************************************)
\* postal.js:465-474, 494-496: the command starts with selector a.
Start(a) ==
  /\ pc = "idle"
  /\ runs < MaxRuns
  /\ runs' = runs + 1
  /\ fsas' = [i \in DOMAIN a |-> toUpperCase(a[i])]
  /\ fsaData' = SelectSeq(FsaJson, LAMBDA f : Selected(fsas', f))
  /\ randomLdus' = SetLength(lduJson, SEARCH_LDU_COUNT)
  /\ pc' = "next"
  /\ exit' = [kind |-> "running"]
  /\ FreshMemory
  /\ UNCHANGED << lduJson, file, flushed, provVars, cmdVars >>

\* postal.js:476-479 and 416-427: the next record is taken and
\* fsaEdSearchFor is called, which loads the existing results.
CallSearchFor ==
  /\ pc = "next"
  /\ fsaData # <<>>
  /\ LET f == Head(fsaData)
         path == pathFsaEd(f.fsa)
     IN /\ fsa' = f.fsa
        /\ ldus' = Candidates(f, randomLdus)
        /\ results' = ReadResults(file[path])
        /\ loaded' = ReadResults(file[path])
        /\ before' = file[path]
        /\ resumed' = (file[path].st = "ok" /\ flushed[path].complete)
  /\ fsaData' = Tail(fsaData)
  /\ li' = 1
  /\ retry' = 0
  /\ err' = NoError
  /\ reqLog' = <<>>
  /\ okCount' = 0
  /\ pc' = "loop"
  /\ UNCHANGED << lduJson, file, randomLdus, fsas, exit, runs, timeVars,
                  flushed, provVars, cmdVars >>

\* postal.js:480-481: every record has been searched.
Done ==
  /\ pc = "next"
  /\ fsaData = <<>>
  /\ pc' = "idle"
  /\ exit' = [kind |-> "ok"]
  /\ UNCHANGED << lduJson, file, procVars, callVars, histVars, runs, timeVars,
                  flushed, provVars, cmdVars >>

(***************************************************************************)
(* fsaEdSearchFor                                                          *)
(***************************************************************************)
\* postal.js:430-433: the postal code is already in the result set.
Skip ==
  /\ pc = "loop"
  /\ li <= Len(ldus)
  /\ Existing(results, Postal(fsa, ldus[li]))
  /\ li' = li + 1
  /\ UNCHANGED << lduJson, file, pc, procVars, fsa, ldus, retry, results, err,
                  exit, runs, histVars, timeVars, flushed, provVars, cmdVars >>

\* postal.js:433-438: the postal code is not resolved; the retry loop starts.
BeginFetch ==
  /\ pc = "loop"
  /\ li <= Len(ldus)
  /\ ~Existing(results, Postal(fsa, ldus[li]))
  /\ retry' = 0
  /\ pc' = "delay"
  /\ UNCHANGED << lduJson, file, procVars, fsa, ldus, li, results, err, exit,
                  runs, histVars, timeVars, flushed, provVars, cmdVars >>

\* postal.js:441: await delay(900).
Delay ==
  /\ pc = "delay"
  /\ waited' = waited + DelayBefore(retry)
  /\ sinceStart' = IF sinceStart < 0 THEN sinceStart
                   ELSE sinceStart + DelayBefore(retry)
  /\ pc' = "send"
  /\ UNCHANGED << lduJson, file, procVars, callVars, exit, runs, histVars,
                  inFlight, gaps, flushed, provVars, cmdVars >>

\* postal.js:443: get(url) issues the request.
Send ==
  /\ pc = "send"
  /\ inFlight' = inFlight + 1
  /\ reqLog' = Append(reqLog, Postal(fsa, ldus[li]))
  /\ gaps' = IF sinceStart < 0 THEN gaps ELSE PushGap(gaps, sinceStart)
  /\ sinceStart' = 0
  /\ pc' = "await"
  /\ UNCHANGED << lduJson, file, procVars, callVars, exit, runs, okCount,
                  loaded, before, resumed, waited, flushed, provVars, cmdVars >>

\* postal.js:443-445: the request succeeds after lat ms.
ResponseOk(lat) ==
  /\ pc = "await"
  /\ inFlight' = inFlight - 1
  /\ waited' = 0
  /\ sinceStart' = sinceStart + lat
  /\ results' = Append(results, [postal |-> Postal(fsa, ldus[li]),
                                 result |-> ApiResponse(Postal(fsa, ldus[li]))])
  /\ okCount' = okCount + 1
  /\ li' = li + 1
  /\ pc' = "loop"
  /\ UNCHANGED << lduJson, file, procVars, fsa, ldus, retry, err, exit, runs,
                  reqLog, loaded, before, resumed, gaps, flushed, provVars, cmdVars >>

\* postal.js:446-448: the request fails after lat ms and is retried.
ResponseRetry(lat) ==
  /\ pc = "await"
  /\ ShouldRetry(retry)
  /\ inFlight' = inFlight - 1
  /\ waited' = 0
  /\ sinceStart' = sinceStart + lat
  /\ retry' = retry + 1
  /\ pc' = "delay"
  /\ UNCHANGED << lduJson, file, procVars, fsa, ldus, li, results, err, exit,
                  runs, histVars, gaps, flushed, provVars, cmdVars >>

\* postal.js:449-451, 457-459: the request fails after lat ms with the
\* retries exhausted; the error is thrown, caught and rethrown, and the
\* finally block comes next.
ResponseFatal(lat) ==
  /\ pc = "await"
  /\ ~ShouldRetry(retry)
  /\ inFlight' = inFlight - 1
  /\ waited' = 0
  /\ sinceStart' = sinceStart + lat
  /\ err' = Rethrown(LookupError(Postal(fsa, ldus[li]), retry))
  /\ pc' = "write"
  /\ UNCHANGED << lduJson, file, procVars, fsa, ldus, li, retry, results, exit,
                  runs, histVars, gaps, flushed, provVars, cmdVars >>

\* postal.js:455-456: the for loop ends normally; the finally block is next.
LoopEnd ==
  /\ pc = "loop"
  /\ li > Len(ldus)
  /\ pc' = "write"
  /\ UNCHANGED << lduJson, file, procVars, callVars, exit, runs, histVars,
                  timeVars, flushed, provVars, cmdVars >>

\* postal.js:461: fs.writeFile opens the file, truncating it.
WriteOpen ==
  /\ pc = "write"
  /\ file' = [file EXCEPT ![pathFsaEd(fsa)] = [st |-> "torn", ents |-> <<>>]]
  /\ pc' = "writing"
  /\ UNCHANGED << lduJson, procVars, callVars, exit, runs, histVars, timeVars,
                  flushed, provVars, cmdVars >>

\* postal.js:461: fs.writeFile writes the text of one more entry.
WriteChunk ==
  /\ pc = "writing"
  /\ Len(file[pathFsaEd(fsa)].ents) < Len(results)
  /\ LET path == pathFsaEd(fsa)
         n == Len(file[path].ents) + 1
     IN file' = [file EXCEPT ![path] =
                   [st |-> "torn", ents |-> SubSeq(results, 1, n)]]
  /\ UNCHANGED << lduJson, pc, procVars, callVars, exit, runs, histVars,
                  timeVars, flushed, provVars, cmdVars >>

\* postal.js:461-462: fs.writeFile completes; fsaEdSearchFor returns, or the
\* pending error propagates to the top level (postal.js:497-500).
WriteClose ==
  /\ pc = "writing"
  /\ Len(file[pathFsaEd(fsa)].ents) = Len(results)
  /\ file' = [file EXCEPT ![pathFsaEd(fsa)] = [st |-> "ok", ents |-> results]]
  /\ flushed' = [flushed EXCEPT ![pathFsaEd(fsa)] =
                   [ents |-> results, complete |-> (err = NoError)]]
  /\ IF err = NoError
       THEN pc' = "next" /\ exit' = exit
       ELSE pc' = "idle" /\ exit' = err
  /\ UNCHANGED << lduJson, procVars, callVars, runs, histVars, timeVars,
                  provVars, cmdVars >>

\* The process is terminated from outside (postal.js has no handler).
Kill ==
  /\ pc # "idle"
  /\ pc' = "idle"
  /\ exit' = [kind |-> "killed"]
  /\ fsaData' = <<>>
  /\ randomLdus' = <<>>
  /\ fsas' = <<>>
  /\ FreshMemory
  /\ UNCHANGED << lduJson, file, runs, flushed, provVars, cmdVars >>

Next ==
  \/ \E a \in ArgChoices : Start(a)
  \/ CallSearchFor
  \/ Done
  \/ Skip
  \/ BeginFetch
  \/ Delay
  \/ Send
  \/ \E lat \in {0, LatencyMs} : ResponseOk(lat)
  \/ \E lat \in {0, LatencyMs} : ResponseRetry(lat)
  \/ \E lat \in {0, LatencyMs} : ResponseFatal(lat)
  \/ LoopEnd
  \/ WriteOpen
  \/ WriteChunk
  \/ WriteClose
  \/ Kill

Spec == Init /\ [][Next]_vars

(***************************************************************************)
(* fsaProvince                                                             *)
(***************************************************************************)
\* postal.js:39-58: the first letter of an FSA to its province; the value
\* for X is a function of the whole FSA, written "function" here.
LETTER_PROVINCE ==
  [l \in {"A", "B", "C", "E", "G", "H", "J", "K", "L", "M", "N", "P", "R",
          "S", "T", "V", "X", "Y"} |->
     CASE l = "A" -> "NL" [] l = "B" -> "NS" [] l = "C" -> "PE"
       [] l = "E" -> "NB" [] l \in {"G", "H", "J"} -> "QC"
       [] l \in {"K", "L", "M", "N", "P"} -> "ON"
       [] l = "R" -> "MB" [] l = "S" -> "SK" [] l = "T" -> "AB"
       [] l = "V" -> "BC" [] l = "X" -> "function" [] l = "Y" -> "YT"]

\* String.prototype.charAt: the empty string outside the string.
charAt(s, i) == IF i + 1 \in DOMAIN s THEN s[i + 1] ELSE ""

\* A property read of the object LETTER_PROVINCE: undefined for a key the
\* object does not have.
PropertyOf(key) ==
  IF key \in DOMAIN LETTER_PROVINCE THEN LETTER_PROVINCE[key] ELSE "undefined"

NunavutMissingOne(f) ==
  IF f \in { <<"X", "0", "A">>, <<"X", "0", "B">> } THEN "NU" ELSE "NT"

\* postal.js:56: the disambiguation of the letter X.
ProvinceOfX(f) ==
  IF f \in { <<"X", "0", "A">>, <<"X", "0", "B">>, <<"X", "0", "C">> }
    THEN "NU" ELSE "NT"

\* postal.js:62-65
fsaProvince(f) ==
  LET province == PropertyOf(charAt(f, 0))
  IN IF province = "function" THEN ProvinceOfX(f) ELSE province

\* The FSAs fsaProvince is applied to: every valid leading letter and some
\* that are not valid.
ProvinceInputs ==
  { <<l, d, m>> : l \in DOMAIN LETTER_PROVINCE \cup {"D", "Z", "x"},
                  d \in {"0", "1"}, m \in {"A", "B", "C", "E"} }

InitProvince ==
  /\ SearchInit
  /\ pfsa \in ProvinceInputs
  /\ pout = "none"
  /\ EnrichIdle
  /\ GenIdle
  /\ TextIdle

\* postal.js:62-65: one call of fsaProvince.
CallProvince ==
  /\ pout = "none"
  /\ pout' = fsaProvince(pfsa)
  /\ UNCHANGED << lduJson, file, pc, procVars, callVars, exit, runs, histVars,
                  timeVars, flushed, pfsa, cmdVars >>

NextProvince == CallProvince

SpecProvince == InitProvince /\ [][NextProvince]_vars

(***************************************************************************)
(* Properties of fsaEdSearchFor.                                           *)
(***************************************************************************)
IsPrefix(s, t) == Len(s) <= Len(t) /\ SubSeq(t, 1, Len(s)) = s

Count(s, v) == Cardinality({ i \in DOMAIN s : s[i] = v })

PostalsOf(res) == { res[i].postal : i \in DOMAIN res }

NoDuplicates(res) ==
  \A i, j \in DOMAIN res : res[i].postal = res[j].postal => i = j

\* fsaEdSearchFor is between its load and the end of its write.
InCall == pc \in {"loop", "delay", "send", "await", "write", "writing"}

\* fsaEdSearchFor has returned or thrown, and the process has not been
\* terminated since.
CallEnded == pc \in {"next", "idle"} /\ fsa # <<>>

CandidatePostals == { Postal(fsa, ldus[i]) : i \in DOMAIN ldus }

\* The candidates that the loaded result set does not resolve.
Unresolved == CandidatePostals \ PostalsOf(loaded)

\* C1: no lookup is ever issued for a postal code that is in the result set
\* (loaded from the file or appended earlier in the call): the retry loop is
\* entered, and every request is issued, only for a postal code that
\* results does not hold.  With two candidates of which the first is
\* stored and every lookup succeeding, exactly one lookup is issued, for
\* the second.
SkipIfPresent ==
  /\ pc \in {"delay", "send", "await"} =>
       ~Existing(results, Postal(fsa, ldus[li]))
  /\ pc = "await" => reqLog[Len(reqLog)] = Postal(fsa, ldus[li])
  /\ \A i \in DOMAIN reqLog : ~Existing(loaded, reqLog[i])
  /\ \A i, j \in DOMAIN reqLog :
       (i < j /\ reqLog[i] = reqLog[j]) =>
         \A k \in i..j : reqLog[k] = reqLog[i]
  /\ ( /\ pc = "write"
       /\ err = NoError
       /\ Len(ldus) = 2
       /\ Existing(loaded, Postal(fsa, ldus[1]))
       /\ ~Existing(loaded, Postal(fsa, ldus[2]))
       /\ okCount = Len(reqLog) )
     => reqLog = << Postal(fsa, ldus[2]) >>

\* A call whose first candidate was stored and whose second was looked up.
SkipIfPresentWitness ==
  /\ pc = "write"
  /\ err = NoError
  /\ Len(ldus) = 2
  /\ Existing(loaded, Postal(fsa, ldus[1]))
  /\ reqLog = << Postal(fsa, ldus[2]) >>

\* C2: a call that starts from the file persisted by a fully successful
\* call for the same FSA and candidates issues no lookup and writes a
\* result set equal to that file; and no result set, in memory or
\* persisted, ever holds two entries with the same postal code.
ResumeIdempotent ==
  /\ resumed =>
       /\ reqLog = <<>>
       /\ results = before.ents
       /\ err = NoError
       /\ CallEnded => file[pathFsaEd(fsa)] = before
  /\ NoDuplicates(results)
  /\ \A p \in Paths : NoDuplicates(file[p].ents)

\* A resumed call over a file of two entries has written the file again.
ResumeIdempotentWitness ==
  /\ resumed
  /\ CallEnded
  /\ Len(before.ents) = 2
  /\ Len(ldus) > Len(before.ents)

\* C3: every entry that was in the per-FSA file before a call is in the
\* file after it, in the same order, new entries only appended.
OnlyGrows ==
  CallEnded => IsPrefix(before.ents, file[pathFsaEd(fsa)].ents)

RetriesBounded ==
  /\ retry \in 0..MaxRetry
  /\ MaxRetry + 1 = 4
  /\ \A p \in CandidatePostals : Count(reqLog, p) <= 4
  /\ Len(reqLog) <= 4 * Cardinality(Unresolved)
  /\ pc = "delay" => Count(reqLog, Postal(fsa, ldus[li])) = retry
  /\ pc \in {"send", "await"} => retry < 4
  /\ Len(results) = Len(loaded) + okCount
  /\ PostalsOf(results) \subseteq PostalsOf(loaded) \cup { reqLog[i] : i \in DOMAIN reqLog }
  /\ err # NoError =>
       /\ Count(reqLog, err.postal) = 4
       /\ ~Existing(results, err.postal)
  /\ (err = NoError /\ pc \in {"write", "writing"}) =>
       \A i \in DOMAIN reqLog : Existing(results, reqLog[i])
  /\ (err = NoError /\ pc \notin {"send", "await"}) =>
       \A p \in CandidatePostals :
         Count(reqLog, p) = 4 => (Existing(results, p) \/ pc = "delay")

\* A lookup has succeeded at its fourth attempt and a later one has failed
\* four times.
RetriesBoundedWitness ==
  /\ pc = "write"
  /\ err # NoError
  /\ Len(reqLog) = 8
  /\ okCount = 1

(***************************************************************************)
(* Properties of the timing of the requests.                               *)
(***************************************************************************)
RECURSIVE Sum(_)
Sum(s) == IF s = <<>> THEN 0 ELSE Head(s) + Sum(Tail(s))

\* The least whole number of q's that cover w.
CeilDiv(w, q) == (w + q - 1) \div q

\* C6: at most one request is in flight; no request is in flight while a
\* delay runs; every request, a first attempt or a retry, is issued after
\* one full delay of 900 ms that ran after the previous answer.
SerializedAndSpaced ==
  /\ inFlight \in {0, 1}
  /\ inFlight = 1 <=> pc = "await"
  /\ pc \in {"send", "await"} => waited = DelayMs
  /\ pc \in {"loop", "delay"} => waited = 0
  /\ DelayMs = 900
  /\ \A i \in DOMAIN gaps : gaps[i] >= DelayMs

\* A retry is in flight, after a request that failed at once.
SerializedAndSpacedWitness ==
  /\ pc = "await"
  /\ retry = 2
  /\ gaps = << DelayMs, DelayMs >>

FlushedSurvivesTermination ==
  pc = "idle" =>
    \A p \in Paths : IsPrefix(flushed[p].ents, ReadResults(file[p]))

\* The record of fsa.json that the call in progress searches.
CurrentRecord ==
  CHOOSE f \in Range(FsaJson) : f.fsa = fsa

FirstN(s, n) == SubSeq(s, 1, IF n < Len(s) THEN n ELSE Len(s))

IsLduCode(l) == Len(JsString(l)) = 3 /\ l # Undefined

\* C9: only the selected Ontario records are searched; a record with an
\* ldus list with exactly its LDU codes in order, a record without one
\* with exactly the first SEARCH_LDU_COUNT entries of the persisted pool;
\* every candidate is a 3-character code and every stored postal code has
\* 6 characters.
CandidateSelection ==
  /\ InCall =>
       /\ CurrentRecord.province = "ON"
       /\ fsas = <<>> \/ Includes(fsas, fsa)
       /\ "ldus" \in DOMAIN CurrentRecord =>
            /\ Len(ldus) = Len(CurrentRecord.ldus)
            /\ \A i \in DOMAIN ldus : ldus[i] = CurrentRecord.ldus[i].ldu
       /\ "ldus" \notin DOMAIN CurrentRecord =>
            ldus = FirstN(lduJson, SEARCH_LDU_COUNT)
       /\ \A i \in DOMAIN ldus : IsLduCode(ldus[i])
       /\ \A i \in DOMAIN results : Len(results[i].postal) = 6
  /\ \A p \in Paths : \A i \in DOMAIN file[p].ents :
       Len(file[p].ents[i].postal) = 6
  /\ \A i \in DOMAIN FsaJson :
       FsaJson[i].province # "ON" =>
         file[pathFsaEd(FsaJson[i].fsa)] = NoFile

(***************************************************************************)
(* Properties of fsaProvince.                                              *)
(***************************************************************************)
ValidLetters ==
  {"A", "B", "C", "E", "G", "H", "J", "K", "L", "M", "N", "P", "R", "S", "T",
   "V", "X", "Y"}

ProvinceCodes ==
  {"NL", "NS", "PE", "NB", "QC", "ON", "MB", "SK", "AB", "BC", "NU", "NT",
   "YT"}

\* C10: for an FSA whose first letter is one of the 18 valid letters,
\* fsaProvince returns one of the province and territory codes; for the
\* letter X it returns NU exactly for X0A, X0B and X0C, and NT otherwise.
ProvinceTotal ==
  (pout # "none" /\ pfsa[1] \in ValidLetters) =>
    /\ pout \in ProvinceCodes
    /\ pfsa[1] = "X" =>
         /\ pout \in {"NU", "NT"}
         /\ pout = "NU" <=>
              pfsa \in { <<"X", "0", "A">>, <<"X", "0", "B">>,
                         <<"X", "0", "C">> }
    /\ pfsa[1] # "X" => pout \notin {"NU", "NT"}

\* fsaProvince has returned NU for X0C.
ProvinceTotalWitness ==
  pfsa = <<"X", "0", "C">> /\ pout = "NU"

\* What pout would hold had the call raised an error; no path of
\* fsaProvince produces it.
Thrown == "throws"

\* C11: for an FSA whose first letter is not a valid leading letter,
\* fsaProvince raises an error and returns no value.
ProvinceFailsOnInvalid ==
  (pout # "none" /\ pfsa[1] \notin ValidLetters) => pout = Thrown

(***************************************************************************)
(* edMppEnrich                                                             *)
(*                                                                         *)
(* A district id is a JavaScript value: a number (the default ids, and     *)
(* the ids of ed-raw.json) or a string (an argument of the command line).  *)
(* fs.writeFile of ed.json is one step here: the command is not            *)
(* terminated in this specification.  A record keeps the fields the MPP    *)
(* designation and names are computed from; the other fields are copied    *)
(* from the raw record and the MPP page unchanged and are left out.        *)
(***************************************************************************)
Num(n) == [t |-> "number", n |-> n, s |-> <<>>]
Str(s) == [t |-> "string", n |-> 0, s |-> s]

Digits == <<"0", "1", "2", "3", "4", "5", "6", "7", "8", "9">>

DigitValue(c) == (CHOOSE i \in DOMAIN Digits : Digits[i] = c) - 1

IsDigits(s) == \A i \in DOMAIN s : Includes(Digits, s[i])

\* ToNumber of a string of decimal digits (the empty string is 0).
RECURSIVE DecimalValue(_)
DecimalValue(s) ==
  IF s = <<>> THEN 0
  ELSE 10 * DecimalValue(SubSeq(s, 1, Len(s) - 1)) + DigitValue(s[Len(s)])

\* Number.prototype.toString of a non-negative integer.
RECURSIVE NumberText(_)
NumberText(n) ==
  IF n < 10 THEN << Digits[n + 1] >>
  ELSE NumberText(n \div 10) \o << Digits[(n % 10) + 1] >>

\* id.toString()
toString(v) == IF v.t = "number" THEN NumberText(v.n) ELSE v.s

\* String.prototype.padStart with a one-character filler.
RECURSIVE padStart(_, _, _)
padStart(s, n, c) == IF Len(s) >= n THEN s ELSE padStart(<<c>> \o s, n, c)

\* postal.js:34; the fixed prefix and suffix of the path are left out.
pathMppHtml(id) == padStart(toString(id), 3, "0")

\* postal.js:384  e.id == id, where e.id is a number: a string operand is
\* converted with ToNumber, and a string that is not a numeral is NaN,
\* which equals nothing.
LooseEquals(n, v) ==
  IF v.t = "number" THEN n = v.n ELSE IsDigits(v.s) /\ n = DecimalValue(v.s)

\* postal.js:390  id === 30: no conversion, a string never equals a number.
StrictEquals(v, n) == v.t = "number" /\ v.n = n

\* postal.js:193-195
ED_IDS == [i \in 1..124 |-> Num(i)]

\* String.prototype.split with a one-character separator.
RECURSIVE split(_, _)
split(s, sep) ==
  IF \A i \in DOMAIN s : s[i] # sep THEN << s >>
  ELSE LET k == CHOOSE i \in DOMAIN s :
                  s[i] = sep /\ \A j \in 1..(i - 1) : s[j] # sep
       IN << SubSeq(s, 1, k - 1) >> \o split(SubSeq(s, k + 1, Len(s)), sep)

\* arr[i], zero-based: undefined outside the array.
ElementAt(arr, i) == IF i + 1 \in DOMAIN arr THEN arr[i + 1] ELSE Undefined

Hon == <<"H", "o", "n", ".">>

HonDougFord ==
  <<"H", "o", "n", ".", " ", "D", "o", "u", "g", " ", "F", "o", "r", "d">>
DougFord == <<"D", "o", "u", "g", " ", "F", "o", "r", "d">>
HonJaneQSmith ==
  <<"H", "o", "n", ".", " ", "J", "a", "n", "e", " ", "Q", ".", " ",
    "S", "m", "i", "t", "h">>
AlBo == <<"A", "l", " ", "B", "o">>

\* ed-raw.json: one record per district 1..124 except district miss; the
\* MPP of district 30 is pn, the MPP of every other district is on.
RawWith(pn, on, miss) ==
  SelectSeq([i \in 1..124 |->
               [id |-> i, mppName |-> IF i = 30 THEN pn ELSE on]],
            LAMBDA e : e.id # miss)

RawChoices ==
  { RawWith(pn, on, miss) : pn \in {HonDougFord, DougFord},
                            on \in {HonJaneQSmith, AlBo},
                            miss \in {0, 31} }

AllPages == { pathMppHtml(Num(i)) : i \in 1..124 }

\* The MPP pages on disk: all of them, or all but the page of district 29.
HtmlChoices == { AllPages, AllPages \ { pathMppHtml(Num(29)) } }

\* The selector arguments of ed-mpp-enrich: none (the default ids), or
\* strings.
EnrichArgChoices ==
  { <<>>,
    << <<"3", "0">> >>,
    << <<"3", "1">>, <<"3", "0">>, <<"2", "9">> >>,
    << <<"2", "8">>, <<"1", "2", "5">> >> }

FindIndexOrFirst(raw, id) ==
  LET hits == { i \in DOMAIN raw : LooseEquals(raw[i].id, id) }
  IN IF hits = {} THEN 1 ELSE CHOOSE i \in hits : \A j \in hits : i <= j

\* postal.js:384  raw.find((e) => e.id == id): the position of the first
\* match, 0 when find returns undefined.
FindIndex(raw, id) ==
  LET hits == { i \in DOMAIN raw : LooseEquals(raw[i].id, id) }
  IN IF hits = {} THEN 0 ELSE CHOOSE i \in hits : \A j \in hits : i <= j

\* postal.js:390
Designation(id, names) ==
  IF StrictEquals(id, 30) THEN "Premier"
  ELSE IF ElementAt(names, 0) = Hon THEN "Minister" ELSE "MPP"

\* postal.js:391
FirstName(designation, names) ==
  IF designation = "MPP" THEN ElementAt(names, 0) ELSE ElementAt(names, 1)

\* postal.js:392
LastName(names) == ElementAt(names, Len(names) - 1)

\* postal.js:385-403, 408: the record pushed for id from the raw record ed.
Enriched(id, ed) ==
  LET names == split(ed.mppName, " ")
      mppDesignation == Designation(id, names)
  IN [id |-> id, mppName |-> ed.mppName, mppDesignation |-> mppDesignation,
      mppFirstName |-> FirstName(mppDesignation, names),
      mppLastName |-> LastName(names)]

InitEnrich ==
  /\ SearchInit
  /\ ProvinceIdle
  /\ argv \in EnrichArgChoices
  /\ edRaw \in RawChoices
  /\ mppHtml \in HtmlChoices
  /\ ePc = "start"
  /\ ids = <<>>
  /\ ei = 1
  /\ eds = <<>>
  /\ edJson = NotWritten
  /\ GenIdle
  /\ TextIdle

\* postal.js:376-380, 484-496: the arguments of the command line are
\* strings; with none of them the ids are ED_IDS.
EnrichStart ==
  /\ ePc = "start"
  /\ ids' = IF Len(argv) = 0 THEN ED_IDS
            ELSE [i \in DOMAIN argv |-> Str(argv[i])]
  /\ eds' = <<>>
  /\ ei' = 1
  /\ ePc' = "loop"
  /\ UNCHANGED << notEnrichVars, argv, edRaw, mppHtml, edJson >>

\* postal.js:382-409: one pass of the loop that reaches eds.push.
EnrichPush ==
  /\ ePc = "loop"
  /\ ei <= Len(ids)
  /\ FindIndex(edRaw, ids[ei]) # 0
  /\ pathMppHtml(ids[ei]) \in mppHtml
  /\ eds' = Append(eds, Enriched(ids[ei], edRaw[FindIndex(edRaw, ids[ei])]))
  /\ ei' = ei + 1
  /\ UNCHANGED << notEnrichVars, argv, edRaw, mppHtml, ePc, ids,
                  edJson >>

\* postal.js:384-385: find returns undefined and the destructuring of it
\* throws a TypeError, which line 497 reports before process.exit(1).
EnrichNoRecord ==
  /\ ePc = "loop"
  /\ ei <= Len(ids)
  /\ FindIndex(edRaw, ids[ei]) = 0
  /\ ePc' = "failed"
  /\ UNCHANGED << notEnrichVars, argv, edRaw, mppHtml, ids, ei, eds,
                  edJson >>

\* postal.js:407: fs.readFile rejects for a page that does not exist.
EnrichNoPage ==
  /\ ePc = "loop"
  /\ ei <= Len(ids)
  /\ FindIndex(edRaw, ids[ei]) # 0
  /\ pathMppHtml(ids[ei]) \notin mppHtml
  /\ ePc' = "failed"
  /\ UNCHANGED << notEnrichVars, argv, edRaw, mppHtml, ids, ei, eds,
                  edJson >>

\* postal.js:411-413: after the loop, the whole array is written.
EnrichWrite ==
  /\ ePc = "loop"
  /\ ei > Len(ids)
  /\ edJson' = [written |-> TRUE, eds |-> eds]
  /\ ePc' = "done"
  /\ UNCHANGED << notEnrichVars, argv, edRaw, mppHtml, ids, ei, eds >>

NextEnrich ==
  \/ EnrichStart
  \/ EnrichPush
  \/ EnrichNoRecord
  \/ EnrichNoPage
  \/ EnrichWrite

SpecEnrich == InitEnrich /\ [][NextEnrich]_vars

(***************************************************************************)
(* Properties of edMppEnrich.                                              *)
(***************************************************************************)
\* The tokens of a name: the non-empty pieces between spaces.
Words(name) == SelectSeq(split(name, " "), LAMBDA w : w # <<>>)

\* C12: in every record edMppEnrich builds, whether the ids are the
\* default ones or arguments of the command line, district 30 is
\* designated Premier whatever its mppName; any other district is
\* Minister when the first token of mppName is "Hon." and MPP otherwise.
PremierByDistrict ==
  \A i \in DOMAIN eds :
    eds[i].mppDesignation =
      IF LooseEquals(30, eds[i].id) THEN "Premier"
      ELSE IF Words(eds[i].mppName)[1] = Hon THEN "Minister" ELSE "MPP"

\* C13: mppFirstName is the second token of mppName exactly when the first
\* token is the honorific, and the first token otherwise, also for the
\* Premier; mppLastName is the last token; "Hon. Jane Q. Smith" gives
\* Minister, Jane, Smith.
NameTokens ==
  \A i \in DOMAIN eds :
    LET names == Words(eds[i].mppName)
    IN /\ eds[i].mppFirstName =
            IF names[1] = Hon THEN names[2] ELSE names[1]
       /\ eds[i].mppLastName = names[Len(names)]
       /\ (eds[i].mppName = HonJaneQSmith /\ ~LooseEquals(30, eds[i].id)) =>
            /\ eds[i].mppDesignation = "Minister"
            /\ eds[i].mppFirstName = <<"J", "a", "n", "e">>
            /\ eds[i].mppLastName = <<"S", "m", "i", "t", "h">>

\* C14: ed.json is written only by a run in which every requested id has
\* a raw record, and then holds one record per requested id, in request
\* order; a run that fails, and a run still in its loop, has written
\* nothing.
EnrichAllOrNothing ==
  /\ ePc \in {"start", "loop", "failed"} => edJson = NotWritten
  /\ ePc = "done" =>
       /\ edJson.written
       /\ Len(edJson.eds) = Len(ids)
       /\ \A i \in DOMAIN ids :
            /\ edJson.eds[i].id = ids[i]
            /\ \E j \in DOMAIN edRaw :
                 /\ LooseEquals(edRaw[j].id, ids[i])
                 /\ edJson.eds[i].mppName = edRaw[j].mppName

\* A run has failed on an id without a raw record after pushing a record,
\* and ed.json is not written.
EnrichAllOrNothingWitness ==
  /\ ePc = "failed"
  /\ \A j \in DOMAIN edRaw : ~LooseEquals(edRaw[j].id, ids[ei])
  /\ Len(eds) > 0
  /\ edJson = NotWritten

(***************************************************************************)
(* lduGenerate                                                             *)
(*                                                                         *)
(* shuffle is array-shuffle: it returns the elements of its argument in a  *)
(* random order.  The orders enumerated here are the rotations by the      *)
(* shifts of ShiftChoices, each as it is and reversed.  fs.writeFile of    *)
(* ldu.json is one step: the command is not terminated in this             *)
(* specification.                                                          *)
(***************************************************************************)
LduLettersWithD ==
  <<"A", "B", "C", "D", "E", "G", "H", "J", "K", "L", "M", "N", "P", "R",
    "S", "T", "V", "W", "X", "Y", "Z">>

\* postal.js:309  'ABCEGHJKLMNPRSTVWXYZ'.split('')
LduLetters ==
  <<"A", "B", "C", "E", "G", "H", "J", "K", "L", "M", "N", "P", "R", "S",
    "T", "V", "W", "X", "Y", "Z">>

\* postal.js:310  '0123456789'.split('')
LduDigits == Digits

Reverse(arr) == [i \in DOMAIN arr |-> arr[Len(arr) + 1 - i]]

Rotate(arr, k) == SubSeq(arr, k + 1, Len(arr)) \o SubSeq(arr, 1, k)

ShiftChoices == {0, 1, 777}

\* postal.js:320: the orders shuffle(arr) may return.
Shuffles(arr) ==
  { Rotate(arr, k % (Len(arr) + 1)) : k \in ShiftChoices }
    \cup { Reverse(Rotate(arr, k % (Len(arr) + 1))) : k \in ShiftChoices }

InitGenerate ==
  /\ SearchInit
  /\ ProvinceIdle
  /\ EnrichIdle
  /\ TextIdle
  /\ gPc = "loop"
  /\ gd1 = 1
  /\ gl = 1
  /\ gLdus = <<>>

\* postal.js:313-319: one pass of the middle loop, that is the whole
\* innermost loop for one d1 and one l, and the step to the next pass.
GenPush ==
  /\ gPc = "loop"
  /\ gLdus' = gLdus \o [i \in DOMAIN LduDigits |->
                          << LduDigits[gd1], LduLetters[gl], LduDigits[i] >>]
  /\ IF gl < Len(LduLetters)
       THEN gl' = gl + 1 /\ UNCHANGED << gd1, gPc >>
     ELSE IF gd1 < Len(LduDigits)
       THEN gl' = 1 /\ gd1' = gd1 + 1 /\ UNCHANGED gPc
     ELSE gPc' = "shuffle" /\ UNCHANGED << gd1, gl >>
  /\ UNCHANGED << searchVars, provVars, enrichVars, textVars >>

\* postal.js:320
GenShuffle ==
  /\ gPc = "shuffle"
  /\ gLdus' \in Shuffles(gLdus)
  /\ gPc' = "write"
  /\ UNCHANGED << searchVars, provVars, enrichVars, textVars, gd1, gl >>

\* postal.js:322-324
GenWrite ==
  /\ gPc = "write"
  /\ lduJson' = gLdus
  /\ gPc' = "done"
  /\ UNCHANGED << nonPoolVars, provVars, enrichVars, textVars, gd1, gl,
                  gLdus >>

NextGenerate ==
  \/ GenPush
  \/ GenShuffle
  \/ GenWrite

SpecGenerate == InitGenerate /\ [][NextGenerate]_vars

(***************************************************************************)
(* Properties of lduGenerate.                                              *)
(***************************************************************************)
\* The 26 letters without D, F, I, O, Q and U.
PostalLetters ==
  {"A", "B", "C", "D", "E", "F", "G", "H", "I", "J", "K", "L", "M", "N", "O",
   "P", "Q", "R", "S", "T", "U", "V", "W", "X", "Y", "Z"}
    \ {"D", "F", "I", "O", "Q", "U"}

\* digit x letter x digit
LduSpace ==
  { << d1, l, d2 >> : d1 \in Range(Digits), l \in PostalLetters,
                     d2 \in Range(Digits) }

\* The written pool holds every code of the space exactly once, and only
\* 3-character codes.
PoolIsPermutation ==
  /\ Range(lduJson) = LduSpace
  /\ Cardinality(Range(lduJson)) = Len(lduJson)
  /\ \A i \in DOMAIN lduJson : Len(lduJson[i]) = 3

\* C15 as stated: the pool lduGenerate writes is a permutation of
\* digit x letter x digit over the 20 letters and holds exactly 1,800
\* codes.
PoolOf1800 ==
  gPc = "done" => (PoolIsPermutation /\ Len(lduJson) = 1800)

\* C15 amended: the pool lduGenerate writes is a permutation of
\* digit x letter x digit over the 20 letters, which is 2,000 codes, all
\* distinct, each of 3 characters.
PoolOf2000 ==
  gPc = "done" => (PoolIsPermutation /\ Len(lduJson) = 2000)

\* A pool is written in an order other than the order of generation.
PoolOf2000Witness ==
  /\ gPc = "done"
  /\ Len(lduJson) = 2000
  /\ lduJson[1] = <<"9", "Z", "9">>

(***************************************************************************)
(* dataLines                                                               *)
(*                                                                         *)
(* The inner HTML of a cell is a sequence of tokens: a tag is one token,   *)
(* any other token is one character.  cheerio's text() drops the tags.     *)
(***************************************************************************)
Tags == {"<hr>", "<br>", "<sup>", "</sup>", "<b>", "</b>"}

Whitespace == {" ", "\t", "\n"}

\* postal.js:228  .replace(/-<br>/g, '-')
RECURSIVE JoinHyphenated(_)
JoinHyphenated(html) ==
  IF html = <<>> THEN <<>>
  ELSE LET n == Len(html)
           front == JoinHyphenated(SubSeq(html, 1, n - 1))
       IN IF html[n] = "<br>" /\ n > 1 /\ html[n - 1] = "-" THEN front
          ELSE Append(front, html[n])

\* postal.js:228  .replace(/<br>/g, '\n')
BreaksToNewlines(html) ==
  [i \in DOMAIN html |-> IF html[i] = "<br>" THEN "\n" ELSE html[i]]

\* postal.js:229-231  cheerio.load(html).text()
text(html) == SelectSeq(html, LAMBDA t : t \notin Tags)

RECURSIVE trimStart(_)
trimStart(s) ==
  IF s # <<>> /\ s[1] \in Whitespace THEN trimStart(Tail(s)) ELSE s

RECURSIVE trimEnd(_)
trimEnd(s) ==
  IF s # <<>> /\ s[Len(s)] \in Whitespace
    THEN trimEnd(SubSeq(s, 1, Len(s) - 1)) ELSE s

\* String.prototype.trim
trim(s) == trimEnd(trimStart(s))

\* The length of the match of /\[[0-9]+\]/ at the start of s, 0 when the
\* expression does not match there.
FootnoteAt(s) ==
  IF s = <<>> \/ s[1] # "[" THEN 0
  ELSE LET digits == { n \in 1..(Len(s) - 1) :
                         \A j \in 2..(n + 1) : Includes(Digits, s[j]) }
           d == Cardinality(digits)
       IN IF d >= 1 /\ d + 2 <= Len(s) /\ s[d + 2] = "]" THEN d + 2 ELSE 0

\* postal.js:234  line.replace(/\[[0-9]+\]/g, '')
RECURSIVE RemoveFootnotes(_)
RemoveFootnotes(s) ==
  IF s = <<>> THEN <<>>
  ELSE IF FootnoteAt(s) > 0
    THEN RemoveFootnotes(SubSeq(s, FootnoteAt(s) + 1, Len(s)))
  ELSE << s[1] >> \o RemoveFootnotes(Tail(s))

\* postal.js:227-236
dataLines(data) ==
  LET html == BreaksToNewlines(JoinHyphenated(split(data, "<hr>")[1]))
      lines == split(text(html), "\n")
      trimmed == [i \in DOMAIN lines |-> trim(lines[i])]
      plain == [i \in DOMAIN trimmed |-> RemoveFootnotes(trimmed[i])]
  IN SelectSeq(plain, LAMBDA line : line # <<>>)

\* The longest cell of the cells enumerated token by token.
MaxCell == 4

CellTokens == {"a", " ", "-", "[", "1", "]", "<br>", "<hr>"}

NotAssigned == <<"N", "o", "t", " ", "a", "s", "s", "i", "g", "n", "e", "d">>

NotAssignedNoted ==
  <<"N", "o", "t", " ", "a", "s", "s", "i", "g", "n", "e", "d", " ",
    "[", "1", "]">>

NotAssignedSup ==
  <<"N", "o", "t", " ", "a", "s", "s", "i", "g", "n", "e", "d">>
    \o <<"<sup>", "[", "1", "]", "</sup>">>

\* The cells dataLines is applied to: every cell of at most MaxCell tokens
\* and three longer ones.
CellInputs ==
  UNION { [1..n -> CellTokens] : n \in 0..MaxCell }
    \cup { <<"a", " ", "[", "1", "]">>, NotAssignedNoted, NotAssignedSup }

InitLines ==
  /\ SearchInit
  /\ ProvinceIdle
  /\ EnrichIdle
  /\ GenIdle
  /\ dlIn \in CellInputs
  /\ dlOut = NoLines
  /\ scDoc = <<>>
  /\ scOut = NoRecords

\* postal.js:227-236: one call of dataLines.
CallDataLines ==
  /\ ~dlOut.done
  /\ dlOut' = [done |-> TRUE, lines |-> dataLines(dlIn)]
  /\ UNCHANGED << searchVars, provVars, enrichVars, genVars, dlIn, scDoc,
                  scOut >>

NextLines == CallDataLines

SpecLines == InitLines /\ [][NextLines]_vars

(***************************************************************************)
(* Properties of dataLines.                                                *)
(***************************************************************************)
HasFootnote(line) ==
  \E i \in DOMAIN line : FootnoteAt(SubSeq(line, i, Len(line))) > 0

\* C19: every line dataLines returns is non-empty, neither starts nor ends
\* with whitespace and holds no footnote marker [digits], also when
\* whitespace separates the text from a trailing marker: the cell
\* "Not assigned [1]" gives the one line "Not assigned".
LinesAreClean ==
  dlOut.done =>
    /\ \A i \in DOMAIN dlOut.lines :
         /\ dlOut.lines[i] # <<>>
         /\ dlOut.lines[i][1] \notin Whitespace
         /\ dlOut.lines[i][Len(dlOut.lines[i])] \notin Whitespace
         /\ ~HasFootnote(dlOut.lines[i])
    /\ dlIn = NotAssignedNoted => dlOut.lines = << NotAssigned >>

(***************************************************************************)
(* fsaScrapeFrom                                                           *)
(*                                                                         *)
(* A document is what the three selections of lines 243-248 find in it:    *)
(* the cells of the table after the heading "Rural", those of the table    *)
(* after the heading "Urban", and those of the first table.  A record      *)
(* keeps every field but hotspot, which no other field depends on.  The    *)
(* call ends "returned" with its records or "thrown" with a TypeError.     *)
(***************************************************************************)
SentinelsWithoutReserved ==
  << <<"N", "o", "t", " ", "a", "s", "s", "i", "g", "n", "e", "d">>,
     <<"N", "o", "t", " ", "i", "n", " ", "u", "s", "e">>,
     <<"C", "o", "m", "m", "e", "r", "c", "i", "a", "l", " ", "R", "e",
        "t", "u", "r", "n", "s">> >>

\* postal.js:68
UNUSED_FSA_NAMES ==
  << <<"N", "o", "t", " ", "a", "s", "s", "i", "g", "n", "e", "d">>,
     <<"N", "o", "t", " ", "i", "n", " ", "u", "s", "e">>,
     <<"R", "e", "s", "e", "r", "v", "e", "d">>,
     <<"C", "o", "m", "m", "e", "r", "c", "i", "a", "l", " ", "R", "e",
        "t", "u", "r", "n", "s">> >>

\* The characters of code 32 to 126, in the order of their codes; the
\* double quote, the backslash and the backtick are written by their names.
Ascii ==
  <<" ", "!", "QUOTE", "#", "$", "%", "&", "'", "(", ")", "*", "+", ",",
    "-", ".", "/", "0", "1", "2", "3", "4", "5", "6", "7", "8", "9", ":",
    ";", "<", "=", ">", "?", "@", "A", "B", "C", "D", "E", "F", "G", "H",
    "I", "J", "K", "L", "M", "N", "O", "P", "Q", "R", "S", "T", "U", "V",
    "W", "X", "Y", "Z", "[", "BACKSLASH", "]", "^", "_", "BACKTICK", "a", "b", "c",
    "d", "e", "f", "g", "h", "i", "j", "k", "l", "m", "n", "o", "p", "q",
    "r", "s", "t", "u", "v", "w", "x", "y", "z", "{", "|", "}", "~">>

\* The UTF-16 code unit of a character.
CharCode(c) == 31 + CHOOSE i \in DOMAIN Ascii : Ascii[i] = c

\* a > b on strings: the order of the code units.
RECURSIVE GreaterThan(_, _)
GreaterThan(a, b) ==
  IF a = <<>> THEN FALSE
  ELSE IF b = <<>> THEN TRUE
  ELSE IF a[1] = b[1] THEN GreaterThan(Tail(a), Tail(b))
  ELSE CharCode(a[1]) > CharCode(b[1])

\* Array.prototype.join
RECURSIVE join(_, _)
join(arr, sep) ==
  IF arr = <<>> THEN <<>>
  ELSE IF Len(arr) = 1 THEN arr[1]
  ELSE arr[1] \o sep \o join(Tail(arr), sep)

TypeByFirstCharacter(f) == IF charAt(f, 0) = "0" THEN "rural" ELSE "urban"

\* postal.js:253
TypeOf(f) == IF charAt(f, 1) = "0" THEN "rural" ELSE "urban"

\* postal.js:260-265: the detail of an urban FSA; '' || undefined is
\* undefined.
Detail(rest) ==
  LET detail == join(rest, << " " >>)
      captured ==
        /\ Len(detail) >= 2
        /\ detail[1] = "("
        /\ detail[Len(detail)] = ")"
        /\ \A i \in 2..(Len(detail) - 1) : detail[i] # ")"
      unwrapped ==
        IF captured THEN trim(SubSeq(detail, 2, Len(detail) - 1)) ELSE detail
  IN IF unwrapped = <<>> THEN Undefined ELSE unwrapped

\* postal.js:276  name.endsWith('*')
EndsWithAsterisk(name) == name # <<>> /\ name[Len(name)] = "*"

\* postal.js:270-280: one line of a rural FSA that holds a colon.
ParseLdu(line) ==
  LET parts == split(line, ":")
      name == trim(parts[2])
  IN [ldu |-> trim(parts[1]),
      retired |-> EndsWithAsterisk(name),
      name |-> IF EndsWithAsterisk(name)
                 THEN SubSeq(name, 1, Len(name) - 1) ELSE name]

\* postal.js:252: the destructuring of the lines of a cell.
RestOf(lines) == SubSeq(lines, 3, Len(lines))

\* postal.js:253, 272: fsa.charAt throws when the cell has no line (fsa
\* is undefined); parts[1].trim throws when a line of a rural FSA has no
\* colon (parts[1] is undefined).
Throws(lines) ==
  \/ lines = <<>>
  \/ /\ TypeOf(lines[1]) = "rural"
     /\ \E i \in DOMAIN RestOf(lines) :
          Len(split(RestOf(lines)[i], ":")) < 2

\* postal.js:252-283: the record of the lines of one cell, when they do
\* not throw.
FsaRecord(lines) ==
  LET f == lines[1]
      name == ElementAt(lines, 1)
      rest == RestOf(lines)
  IN IF TypeOf(f) = "urban"
       THEN [fsa |-> f, type |-> "urban", province |-> fsaProvince(f),
             name |-> name, detail |-> Detail(rest)]
       ELSE [fsa |-> f, type |-> "rural", province |-> fsaProvince(f),
             name |-> name,
             ldus |-> [i \in DOMAIN rest |-> ParseLdu(rest[i])]]

\* postal.js:286: the comparator of the sort.
Compare(a, b) ==
  IF a.fsa = b.fsa THEN 0 ELSE IF GreaterThan(a.fsa, b.fsa) THEN 1 ELSE -1

InsertBeforeEqual(sorted, x) ==
  LET k == Cardinality({ i \in DOMAIN sorted : Compare(sorted[i], x) < 0 })
  IN SubSeq(sorted, 1, k) \o << x >> \o SubSeq(sorted, k + 1, Len(sorted))

\* x goes after the elements of sorted that do not compare greater.
Insert(sorted, x) ==
  LET k == Cardinality({ i \in DOMAIN sorted : Compare(sorted[i], x) <= 0 })
  IN SubSeq(sorted, 1, k) \o << x >> \o SubSeq(sorted, k + 1, Len(sorted))

\* Array.prototype.sort with Compare: the sort is stable, so it is the
\* insertion of each element, in order, after its equals.
RECURSIVE sort(_)
sort(arr) ==
  IF arr = <<>> THEN <<>>
  ELSE Insert(sort(SubSeq(arr, 1, Len(arr) - 1)), arr[Len(arr)])

\* postal.js:245-248
Collect(doc) ==
  IF Len(doc.urban) + Len(doc.rural) > 0 THEN doc.rural \o doc.urban
  ELSE doc.table

\* postal.js:238-287
fsaScrapeFrom(doc) ==
  LET data == Collect(doc)
      lines == [i \in DOMAIN data |-> dataLines(data[i])]
  IN IF \E i \in DOMAIN lines : Throws(lines[i])
       THEN [st |-> "thrown", recs |-> <<>>]
     ELSE [st |-> "returned",
           recs |-> sort(SelectSeq([i \in DOMAIN lines |-> FsaRecord(lines[i])],
                           LAMBDA r : ~Includes(UNUSED_FSA_NAMES, r.name)))]

\* The inner HTML of a cell whose lines are separated by <br>.
Cell(lines) == join(lines, << "<br>" >>)

UrbanParenthesized ==
  Cell(<< <<"K", "1", "A">>,
          <<"O", "t", "t", "a", "w", "a">>,
          <<"(", "G", "o", "v", ")">> >>)
UrbanSameFsa ==
  Cell(<< <<"K", "1", "A">>,
          <<"O", "t", "h", "e", "r">> >>)
UrbanPlain ==
  Cell(<< <<"H", "2", "B">>,
          <<"A", "b">>,
          <<"(", "x", ")">>,
          <<"y">> >>)
UrbanEmptyDetail ==
  Cell(<< <<"K", "2", "A">>,
          <<"C", "d">>,
          <<"(", " ", ")">> >>)
UrbanUnassigned ==
  Cell(<< <<"K", "1", "B">>,
          <<"N", "o", "t", " ", "a", "s", "s", "i", "g", "n", "e", "d">> >>)
UrbanUnassignedNoted ==
  Cell(<< <<"K", "1", "C">>,
          <<"N", "o", "t", " ", "a", "s", "s", "i", "g", "n", "e", "d", " ",
            "[", "1", "]">> >>)
UrbanInvalidLetter ==
  Cell(<< <<"D", "1", "A">>,
          <<"X", "y">> >>)
RuralWithLdus ==
  Cell(<< <<"A", "0", "A">>,
          <<"R", "u", "r", "a", "l">>,
          <<"A", "1", "A", ":", " ", "C", "a", "p", "i", "t", "a", "l", " ",
            "A", "r", "e", "a", "*">>,
          <<"2", "B", "0", ":", " ", "C", "d", ":", " ", "E", "f", "*">>,
          <<"3", "C", "0", ":", "G", "h">> >>)
RuralReserved ==
  Cell(<< <<"K", "0", "C">>,
          <<"R", "e", "s", "e", "r", "v", "e", "d">> >>)
RuralNoColon ==
  Cell(<< <<"K", "0", "B">>,
          <<"R", "r">>,
          <<"n", "o", "c", "o", "l", "o", "n">> >>)
NameOnly ==
  Cell(<< <<"K", "3", "A">> >>)
EmptyCell == <<>>

CellChoices ==
  { UrbanParenthesized, UrbanSameFsa, UrbanPlain, UrbanEmptyDetail,
    UrbanUnassigned, UrbanUnassignedNoted, UrbanInvalidLetter, RuralWithLdus,
    RuralReserved, RuralNoColon, NameOnly, EmptyCell }

\* The most cells of a document.
MaxDocCells == 2

\* The documents: the cells t in one table without section headings, or
\* split into a Rural table of the first k cells and an Urban table of
\* the others.
DocChoices ==
  LET seqs == UNION { [1..n -> CellChoices] : n \in 0..MaxDocCells }
  IN { [rural |-> <<>>, urban |-> <<>>, table |-> t] : t \in seqs }
       \cup { [rural |-> SubSeq(tk[1], 1, tk[2]),
               urban |-> SubSeq(tk[1], tk[2] + 1, Len(tk[1])),
               table |-> IF tk[2] > 0 THEN SubSeq(tk[1], 1, tk[2])
                         ELSE tk[1]] :
              tk \in { x \in seqs \X (0..MaxDocCells) : x[2] <= Len(x[1]) } }

InitScrape ==
  /\ SearchInit
  /\ ProvinceIdle
  /\ EnrichIdle
  /\ GenIdle
  /\ lduJson = << Ldu1 >>
  /\ dlIn = <<>>
  /\ dlOut = NoLines
  /\ scDoc \in DocChoices
  /\ scOut = NoRecords

\* postal.js:238-287: one call of fsaScrapeFrom.
CallScrapeFrom ==
  /\ scOut.st = "none"
  /\ scOut' = fsaScrapeFrom(scDoc)
  /\ UNCHANGED << searchVars, provVars, enrichVars, genVars, dlIn, dlOut,
                  scDoc >>

NextScrape == CallScrapeFrom

SpecScrape == InitScrape /\ [][NextScrape]_vars

(***************************************************************************)
(* Properties of fsaScrapeFrom.                                            *)
(***************************************************************************)
\* a <= b in the lexicographic order of strings.
RECURSIVE LexLeq(_, _)
LexLeq(a, b) ==
  IF a = <<>> THEN TRUE
  ELSE IF b = <<>> THEN FALSE
  ELSE IF a[1] = b[1] THEN LexLeq(Tail(a), Tail(b))
  ELSE CharCode(a[1]) < CharCode(b[1])

Sentinels ==
  { <<"N", "o", "t", " ", "a", "s", "s", "i", "g", "n", "e", "d">>,
    <<"N", "o", "t", " ", "i", "n", " ", "u", "s", "e">>,
    <<"R", "e", "s", "e", "r", "v", "e", "d">>,
    <<"C", "o", "m", "m", "e", "r", "c", "i", "a", "l", " ", "R", "e", "t",
        "u", "r", "n", "s">> }

\* The lines of the cells of the document, in the order the cells are
\* collected: those of the Rural table, then those of the Urban table, or
\* without the two those of the first table.
CollectedLines ==
  LET cells == IF scDoc.rural \o scDoc.urban = <<>> THEN scDoc.table
               ELSE scDoc.rural \o scDoc.urban
  IN [i \in DOMAIN cells |-> dataLines(cells[i])]

\* The name parsed from the lines of a cell: the second line, if any.
ParsedName(lines) == ElementAt(lines, 1)

\* The lines of the cells whose parsed name is not a sentinel.
KeptLines ==
  SelectSeq(CollectedLines, LAMBDA l : ParsedName(l) \notin Sentinels)

\* The names of the records (or cell lines) of fsa f, in order.
NamesOf(recs, f) ==
  LET hits == SelectSeq(recs, LAMBDA r : r.fsa = f)
  IN [i \in DOMAIN hits |-> hits[i].name]

\* C16: the records fsaScrapeFrom returns are in non-decreasing
\* lexicographic order of fsa, and the records of one fsa are in the order
\* their cells were collected (the cells of the Rural table before those
\* of the Urban table).
SortedAndStable ==
  scOut.st = "returned" =>
    LET kept == KeptLines
        cells == [i \in DOMAIN kept |->
                    [fsa |-> kept[i][1], name |-> ParsedName(kept[i])]]
    IN /\ \A i, j \in DOMAIN scOut.recs :
            i < j => LexLeq(scOut.recs[i].fsa, scOut.recs[j].fsa)
       /\ \A k \in DOMAIN scOut.recs :
            NamesOf(scOut.recs, scOut.recs[k].fsa) =
              NamesOf(cells, scOut.recs[k].fsa)

\* Two records of one fsa have been returned, the one of the Rural table
\* first, from cells collected in decreasing order of fsa elsewhere.
SortedAndStableWitness ==
  /\ scOut.st = "returned"
  /\ scDoc.rural = << UrbanSameFsa >>
  /\ scDoc.urban = << UrbanParenthesized >>
  /\ Len(scOut.recs) = 2
  /\ scOut.recs[1].name = <<"O", "t", "h", "e", "r">>

\* C17: no record fsaScrapeFrom returns has a sentinel name, and every
\* cell whose parsed name is not a sentinel has exactly one record.
OnlySentinelsRemoved ==
  scOut.st = "returned" =>
    LET kept == KeptLines
        cells == [i \in DOMAIN kept |->
                    [fsa |-> kept[i][1], name |-> ParsedName(kept[i])]]
        recs == [j \in DOMAIN scOut.recs |->
                   [fsa |-> scOut.recs[j].fsa, name |-> scOut.recs[j].name]]
    IN /\ \A j \in DOMAIN recs : recs[j].name \notin Sentinels
       /\ Len(recs) = Len(cells)
       /\ \A i \in DOMAIN cells : Count(recs, cells[i]) = Count(cells, cells[i])

\* A document of a sentinel-named cell and another cell has returned the
\* record of the other cell only.
OnlySentinelsRemovedWitness ==
  /\ scOut.st = "returned"
  /\ scDoc.table = << RuralReserved, UrbanPlain >>
  /\ Len(scOut.recs) = 1
  /\ scOut.recs[1].fsa = <<"H", "2", "B">>

\* C18: a returned record is rural exactly when the second character of
\* its fsa is 0; a rural record has ldus and no detail; an urban record
\* has no ldus, and its detail is a non-empty string or undefined.
ShapeByType ==
  scOut.st = "returned" =>
    \A i \in DOMAIN scOut.recs :
      LET r == scOut.recs[i]
      IN /\ r.type \in {"rural", "urban"}
         /\ r.type = "rural" <=> (Len(r.fsa) >= 2 /\ r.fsa[2] = "0")
         /\ r.type = "rural" =>
              "ldus" \in DOMAIN r /\ "detail" \notin DOMAIN r
         /\ r.type = "urban" =>
              /\ "ldus" \notin DOMAIN r
              /\ "detail" \in DOMAIN r
              /\ r.detail # <<>>
              /\ r.detail = Undefined \/
                   \A k \in DOMAIN r.detail : r.detail[k] \in Range(Ascii)

\* A rural record and an urban record whose detail is undefined have been
\* returned.
ShapeByTypeWitness ==
  /\ scOut.st = "returned"
  /\ scDoc.table = << UrbanEmptyDetail, RuralWithLdus >>
  /\ Len(scOut.recs) = 2
  /\ scOut.recs[1].type = "rural"
  /\ Len(scOut.recs[1].ldus) = 3
  /\ scOut.recs[2].detail = Undefined

\* The position of the first colon of a line that has one.
FirstColon(line) ==
  CHOOSE k \in DOMAIN line :
    line[k] = ":" /\ \A j \in 1..(k - 1) : line[j] # ":"

\* A line split on its first colon only: ldu is the trimmed text before
\* it, name the whole trimmed text after it without a trailing asterisk,
\* retired whether there was one.
SplitOnFirstColon(line) ==
  LET after == trim(SubSeq(line, FirstColon(line) + 1, Len(line)))
      starred == after # <<>> /\ after[Len(after)] = "*"
  IN [ldu |-> trim(SubSeq(line, 1, FirstColon(line) - 1)),
      retired |-> starred,
      name |-> IF starred THEN SubSeq(after, 1, Len(after) - 1) ELSE after]

\* C20: the ldus of a returned rural record are its payload lines, each
\* split on its first colon only; "A1A: Capital Area*" gives ldu A1A,
\* name Capital Area, retired.
LduSplitOnFirstColon ==
  scOut.st = "returned" =>
    /\ LET kept == KeptLines
       IN \A i \in DOMAIN kept :
            LET rest == SubSeq(kept[i], 3, Len(kept[i]))
            IN (Len(kept[i][1]) >= 2 /\ kept[i][1][2] = "0") =>
                 \E j \in DOMAIN scOut.recs :
                   /\ scOut.recs[j].fsa = kept[i][1]
                   /\ scOut.recs[j].type = "rural"
                   /\ scOut.recs[j].ldus =
                        [n \in DOMAIN rest |-> SplitOnFirstColon(rest[n])]
    /\ \A j \in DOMAIN scOut.recs :
         (scOut.recs[j].fsa = <<"A", "0", "A">>) =>
           scOut.recs[j].ldus[1] =
             [ldu |-> <<"A", "1", "A">>, retired |-> TRUE,
              name |-> <<"C", "a", "p", "i", "t", "a", "l", " ",
                         "A", "r", "e", "a">>]

=============================================================================
